---- MODULE Spec2Model ----
(***************************************************************************)
(* Model of the finsync-services cloud functions (src/functions):          *)
(*   verification.py     send_verification_email, handle_verification_click*)
(*   notifications.py    handle_email_notifications                        *)
(*   informative_http.py send_informative                                  *)
(*   informative_email.py send_informative_email                           *)
(*   resend_service.py   get_resend_api_key, _ensure_resend_initialized,   *)
(*                       send_email                                        *)
(* The realtime database is the variable store (the /users subtree), the   *)
(* platform's trigger queue for /users/{userId} is the variable pending.   *)
(* Time is counted in hours.  Tokens produced by             *)
(* secrets.token_hex(32) are modelled as fresh values 1, 2, ... (256 bits  *)
(* of entropy: a repeated token is not modelled).                          *)
(***************************************************************************)
EXTENDS Integers, Sequences, FiniteSets, TLC

\* ---------------------------------------------------------------- bounds
NumUsers == 1
MaxTokens == 2
MaxTime == 2
NumClicks == 2
NumNotifies == 2
NumInforms == 1

\* ------------------------------------------------------------- constants
\* timedelta(hours=1)
OneHour == 1

Users == 1..NumUsers
\* the user id carried by no user (an absent path parameter)
NoUser == 0
\* token values: 0 is None/absent; 1..MaxTokens are issued by token_hex;
\* LegacyToken is a value written by the external account system
NoToken == 0
LegacyToken == MaxTokens + 1
TokenValues == 1..LegacyToken
Times == 0..MaxTime
\* email addresses; "" is None/absent/empty
NoEmail == ""
Emails == {"a@x.io", "p@x.io"}
\* API keys; "" is None/empty
NoKey == ""

\* ------------------------------------------------------------ datetimes
\* an aware datetime is [t, tz]; a stored ISO-8601 string is a sequence
\* <<t, offset>>; the empty sequence is the absent value (None)
NoExpires == << >>
UtcNow(t) == [t |-> t, tz |-> "utc"]
Isoformat(dt) == << dt.t, IF dt.tz = "utc" THEN "+00:00" ELSE "" >>
FromIsoformat(s) == [t |-> s[1], tz |-> IF s[2] = "+00:00" THEN "utc" ELSE "naive"]
\* datetime.now(timezone.utc) > expires (both aware)
After(a, b) == a.t > b.t

\* ---------------------------------------------------------- user records
\* A node of /users: the fields the handlers read or write.  hasProfile
\* stands for the free-form profile fields (name, accountNumber, ...).
NoRecord ==
  [hasProfile |-> FALSE, email |-> NoEmail, profileEmail |-> NoEmail,
   isVerified |-> FALSE, token |-> NoToken, expires |-> NoExpires]

\* `not user_data`: None, {} or a falsy scalar
Falsy(r) == r = NoRecord

\* records the external account system creates at /users/{userId}
\* (a verified record carries no verification sub-record; an imported
\* unverified one may carry a token without expires)
CreatedRecords ==
  { r \in [hasProfile : {TRUE}, email : {NoEmail, "a@x.io"},
           profileEmail : {NoEmail, "p@x.io"}, isVerified : BOOLEAN,
           token : {NoToken, LegacyToken}, expires : {NoExpires}] :
      /\ r.email # NoEmail => r.profileEmail # NoEmail
      /\ (r.isVerified \/ r.token # NoToken) => r.email # NoEmail }

VARIABLES
  store,        \* /users: user id -> record
  pending,      \* undelivered on_value_created events of /users/{userId}
  now,          \* current UTC time
  nextToken,    \* number of tokens token_hex has produced
  secretKey,    \* RESEND_API_KEY.value: "unavailable" (raises), "" or a key
  envKey,       \* os.getenv('RESEND_API_KEY'): "" or a key
  cachedKey,    \* resend_service._CACHED_API_KEY
  initialized,  \* resend_service._RESEND_INITIALIZED
  issuedTo,     \* history: token -> user it was stored for (NoUser: not
                \* yet stored)
  issuedAt,     \* history: token -> the clock its issuance read (line 32)
  okCount,      \* history: token -> number of 200 answers to a click
  last,         \* the handler invocation the last step ran and what it
                \* did (NoCall after a step of the environment)
  clicks,       \* handle_verification_click requests in flight: request
                \* -> [pc, token, user, expires] (its position and its
                \* locals: the user and the expires its query returned)
  logoIn,       \* the logo sources of the last rendered debit alert
  logoOut,      \* the brand block of the last rendered debit alert
  notifying,    \* handle_email_notifications invocations in flight:
                \* slot -> [pc, user, email, notif, resolved]
  informing,    \* send_informative requests in flight:
                \* slot -> [pc, req, resolved]
  mailing       \* send_verification_email invocations in flight:
                \* [pc, user, token, data, expires, email, resolved]
                \* (pc "write": token and expires computed, update not
                \* yet applied; then the positions of its send_email
                \* call, see GatewayPcs)

vars == << store, pending, now, nextToken, secretKey, envKey, cachedKey,
           initialized, issuedTo, issuedAt, okCount, last, clicks, logoIn,
           logoOut, mailing, notifying, informing >>

storeVars == << store, pending, nextToken, issuedTo, issuedAt, okCount >>
keyVars == << secretKey, envKey >>
cacheVars == << cachedKey, initialized >>
logoVars == << logoIn, logoOut >>
auxVars == << clicks, logoIn, logoOut, mailing, notifying, informing >>

\* ------------------------------------------------------ handler inputs
\* the value created at /notifications/users/{userId}/{notificationId}:
\* kind "falsy" (None, {}: `event.data or {}` is {}), "scalar" (a truthy
\* value that is no dict), "notype" (a dict without "type"), "typed";
\* data of a typed record: "absent", "mapping", or "scalar" (a string, a
\* number, a list: anything stored under data that is no dict)
Notifications ==
  [kind : {"falsy", "scalar", "notype"}, title : {""}, data : {"absent"}]
  \cup [kind : {"typed"}, title : {""},
        data : {"absent", "mapping", "scalar"}]
  \cup [kind : {"typed"}, title : {"Alert"}, data : {"mapping"}]

NoNotification == [kind |-> "none", title |-> "", data |-> "absent"]

\* JSON values of the request body
JNull == [t |-> "null", s |-> "", items |-> << >>]
JStr(x) == [t |-> "str", s |-> x, items |-> << >>]
JNum(x) == [t |-> "num", s |-> x, items |-> << >>]
JList(xs) == [t |-> "list", s |-> "", items |-> xs]

\* Python truthiness of a JSON value
Truthy(j) ==
  CASE j.t = "null" -> FALSE
    [] j.t = "str" -> j.s # ""
    [] j.t = "num" -> j.s # "0"
    [] j.t = "list" -> j.items # << >>

Subjects == {JNull, JStr(""), JStr("Hi")}
Bodies == {JNull, JStr("text")}
Tos ==
  {JNull, JStr(""), JStr("a@b.com"), JNum("5"), JList(<< >>),
   JList(<< JStr("a@b.com"), JStr("c@d.com") >>),
   JList(<< JStr("a@b.com"), JNum("5") >>)}
\* a request: body kind "none" (no or unparsable or falsy JSON: get_json
\* gives None and data is {}), "object", "array" (truthy JSON, no object)
Requests ==
  [method : {"POST"}, kind : {"object"}, subject : Subjects,
   body : Bodies, to : Tos]
  \cup [method : {"GET"}, kind : {"object"}, subject : {JStr("Hi")},
        body : {JStr("text")}, to : {JNull, JStr("a@b.com")}]
  \cup [method : {"POST", "GET"}, kind : {"none", "array"},
        subject : {JNull}, body : {JNull}, to : {JNull}]

NoRequest ==
  [method |-> "none", kind |-> "none", subject |-> JNull, body |-> JNull,
   to |-> JNull]

\* the record of an invocation
NoCall ==
  [op |-> "none", user |-> NoUser, token |-> NoToken, status |-> 0,
   raised |-> FALSE, gatewayCalls |-> 0, providerCalls |-> 0,
   gwRaised |-> FALSE, provider |-> "none", to |-> << >>, subject |-> "",
   result |-> "none", case |-> "none", req |-> NoRequest,
   notif |-> NoNotification, resolved |-> FALSE, wrote |-> FALSE,
   looked |-> FALSE]

\* no request in flight, nothing rendered
Requesters == 1..NumClicks
IdleClick ==
  [pc |-> "idle", token |-> NoToken, user |-> NoUser, expires |-> NoExpires]
NoLogoIn ==
  [data |-> "None", notification |-> "None", user |-> "None",
   env |-> "None", bankName |-> "None"]
NoLogoOut == [tag |-> "none", src |-> "", alt |-> ""]

Notifiers == 1..NumNotifies
IdleNotify ==
  [pc |-> "idle", user |-> NoUser, email |-> NoEmail,
   notif |-> NoNotification, resolved |-> FALSE]

Informers == 1..NumInforms
IdleInform == [pc |-> "idle", req |-> NoRequest, resolved |-> FALSE]

AuxInit ==
  /\ notifying = [k \in Notifiers |-> IdleNotify]
  /\ informing = [k \in Informers |-> IdleInform]
  /\ clicks = [p \in Requesters |-> IdleClick]
  /\ logoIn = NoLogoIn
  /\ logoOut = NoLogoOut
  /\ mailing = {}

\* ------------------------------------------------ Email Delivery Gateway
\* variant: the environment variable is tried first
get_resend_api_key_env_first(secret, env) ==
  IF env # NoKey THEN env
  ELSE IF secret # "unavailable" THEN secret ELSE NoKey

\* resend_service.get_resend_api_key: SecretParam first, then environment
get_resend_api_key(secret, env) ==
  IF secret # "unavailable" /\ secret # NoKey THEN secret ELSE env

\* line 40: both module globals are set
CacheWarm(cache) == cache.init /\ cache.key # NoKey

\* resend_service._ensure_resend_initialized on the cache [key, init], run
\* with no other call in between; resolved: get_resend_api_key was called
\* (line 42)
ensure_resend_initialized(cache, secret, env) ==
  IF CacheWarm(cache)
    THEN [raised |-> FALSE, cache |-> cache, resolved |-> FALSE]
    ELSE LET key == get_resend_api_key(secret, env)
         IN  IF key = NoKey
               THEN [raised |-> TRUE, cache |-> cache, resolved |-> TRUE]
               ELSE [raised |-> FALSE, resolved |-> TRUE,
                     cache |-> [key |-> key, init |-> TRUE]]

\* variant: the provider's exception is not caught
ProviderSendPropagates(cache, provider) ==
  IF provider = "ok"
    THEN [raised |-> FALSE, result |-> "resp", cache |-> cache]
    ELSE [raised |-> TRUE, result |-> "none", cache |-> cache]

\* the try/except around resend.Emails.send: provider is "ok" or "raise"
ProviderSend(cache, provider) ==
  IF provider = "ok"
    THEN [raised |-> FALSE, result |-> "resp", cache |-> cache]
    ELSE [raised |-> FALSE, result |-> "none", cache |-> cache]

\* resend_service.send_email, run with no other call in between
send_email(cache, secret, env, provider) ==
  LET i == ensure_resend_initialized(cache, secret, env)
  IN  IF i.raised
        THEN [raised |-> TRUE, result |-> "none", cache |-> i.cache,
              providerCalls |-> 0, resolved |-> i.resolved]
        ELSE LET s == ProviderSend(i.cache, provider)
             IN  [raised |-> s.raised, result |-> s.result,
                  cache |-> s.cache, providerCalls |-> 1,
                  resolved |-> i.resolved]

Cache == [key |-> cachedKey, init |-> initialized]

\* the positions of a send_email call between which the other invocations
\* of the instance run: "send" before the test of line 40, "resolve" before
\* lines 42-45, "flag" before lines 46-48, "provider" in the network call
\* resend.Emails.send of line 76
GatewayPcs == {"send", "resolve", "flag", "provider"}

\* one step of a send_email call at position pc on the module globals (no
\* lock is held between the test of line 40 and the writes of 45-47);
\* done: the call has returned or raised; resolves: line 42 was run
GatewayStep(pc, cache, secret, env, provider) ==
  LET cont == [pc |-> pc, cache |-> cache, done |-> FALSE,
               raised |-> FALSE, result |-> "none", providerCalls |-> 0,
               resolves |-> FALSE, case |-> "none"]
  IN  CASE pc = "send" ->
             IF CacheWarm(cache)
               THEN [cont EXCEPT !.pc = "provider", !.case = "warm"]
               ELSE [cont EXCEPT !.pc = "resolve", !.case = "cold"]
        [] pc = "resolve" ->
             LET key == get_resend_api_key(secret, env)
             IN  IF key = NoKey
                   THEN [cont EXCEPT !.pc = "done", !.done = TRUE,
                           !.raised = TRUE, !.resolves = TRUE,
                           !.case = "nokey"]
                   ELSE [cont EXCEPT !.pc = "flag", !.resolves = TRUE,
                           !.cache = [cache EXCEPT !.key = key],
                           !.case = "keyed"]
        [] pc = "flag" ->
             [cont EXCEPT !.pc = "provider",
                !.cache = [cache EXCEPT !.init = TRUE], !.case = "flagged"]
        [] pc = "provider" ->
             LET s == ProviderSend(cache, provider)
             IN  [cont EXCEPT !.pc = "done", !.done = TRUE,
                    !.raised = s.raised, !.result = s.result,
                    !.cache = s.cache, !.providerCalls = 1,
                    !.case = "called"]

\* -------------------------------------------- Verification Token Manager
\* variant: the guard forgets the isVerified test
IssueSkipsOnlyMissing(data) == Falsy(data)

\* verification.py line 26: the trigger does nothing for this event record
IssueSkips(data) == Falsy(data) \/ data.isVerified

\* variant: the timedelta is left out
ExpiresForNoTtl(t) == [t |-> t, tz |-> "utc"]

\* line 32: expires = now + 1 hour
ExpiresFor(t) == [t |-> t + OneHour, tz |-> "utc"]

\* lines 35-39: user_ref.child("verification").update({token, expires})
WriteVerification(rec, token, expires) ==
  [rec EXCEPT !.token = token, !.expires = Isoformat(expires)]

\* line 51: email at top level, else under profile
ResolveEmail(data) ==
  IF data.email # NoEmail THEN data.email ELSE data.profileEmail

\* the external account system creates /users/{u}; the platform queues the
\* on_value_created event with the created value
UserCreated(u, data) ==
  /\ store[u] = NoRecord
  /\ \A ev \in pending : ev.userId # u
  /\ store' = [store EXCEPT ![u] = data]
  /\ pending' = pending \cup {[userId |-> u, data |-> data]}
  /\ last' = NoCall
  /\ UNCHANGED auxVars
  /\ UNCHANGED << now, nextToken, keyVars, cacheVars, issuedTo, issuedAt,
                  okCount >>

\* verification.send_verification_email on a queued event, up to the
\* update it sends (lines 23-32); the platform delivers at least once
\* (again: the event stays queued).  The invocation ends here when it skips
\* the record; otherwise the token and expires it computed from the clock
\* of this step are on their way to the database.
IssueStart(ev, again) ==
  /\ ev \in pending
  /\ pending' = IF again THEN pending ELSE pending \ {ev}
  /\ LET u == ev.userId
         data == ev.data
     IN  IF IssueSkips(data)
           THEN /\ last' = [NoCall EXCEPT !.op = "issue", !.user = u,
                                          !.case = "skip"]
                /\ UNCHANGED << nextToken, issuedAt, mailing >>
           ELSE /\ nextToken < MaxTokens
                /\ LET token == nextToken + 1
                   IN  /\ nextToken' = token
                       /\ issuedAt' = [issuedAt EXCEPT ![token] = now]
                       /\ mailing' = mailing \cup
                            {[pc |-> "write", user |-> u, token |-> token,
                              data |-> data, expires |-> ExpiresFor(now),
                              email |-> NoEmail, resolved |-> FALSE]}
                       /\ last' = [NoCall EXCEPT !.op = "start",
                                      !.user = u, !.token = token]
  /\ UNCHANGED << store, issuedTo, now, keyVars, cacheVars, okCount, clicks,
                  logoVars, notifying, informing >>

\* lines 35-54: the update lands on the record as it is then, and the
\* email is resolved from the event's record.  The invocation ends here
\* when it finds no email; otherwise it goes on to the gateway.
IssueWrite(m) ==
  /\ m \in mailing /\ m.pc = "write"
  /\ store' = [store EXCEPT ![m.user] =
                 WriteVerification(@, m.token, m.expires)]
  /\ issuedTo' = [issuedTo EXCEPT ![m.token] = m.user]
  /\ LET email == ResolveEmail(m.data)
     IN  IF email = NoEmail
           THEN /\ mailing' = mailing \ {m}
                /\ last' = [NoCall EXCEPT
                     !.op = "issue", !.user = m.user, !.token = m.token,
                     !.wrote = TRUE, !.case = "noemail"]
           ELSE /\ mailing' = (mailing \ {m}) \cup
                     {[m EXCEPT !.pc = "send", !.email = email]}
                /\ last' = [NoCall EXCEPT
                     !.op = "write", !.user = m.user, !.token = m.token,
                     !.wrote = TRUE]
  /\ UNCHANGED << pending, nextToken, issuedAt, now, keyVars, cacheVars,
                  okCount, clicks, logoVars, notifying, informing >>

\* lines 56-76: one step of the send_email call of an invocation that
\* wrote its token; the call's exception leaves the trigger, and its
\* result is only logged
IssueDeliver(m, provider) ==
  /\ m \in mailing /\ m.pc \in GatewayPcs
  /\ LET g == GatewayStep(m.pc, Cache, secretKey, envKey, provider)
         resolved == m.resolved \/ g.resolves
     IN  /\ cachedKey' = g.cache.key
         /\ initialized' = g.cache.init
         /\ IF g.done
              THEN /\ mailing' = mailing \ {m}
                   /\ last' = [NoCall EXCEPT
                        !.op = "issue", !.user = m.user, !.token = m.token,
                        !.raised = g.raised, !.gwRaised = g.raised,
                        !.resolved = resolved,
                        !.provider = IF g.providerCalls = 0 THEN "none"
                                     ELSE provider,
                        !.subject = "Welcome! Please Verify Your Email",
                        !.gatewayCalls = 1,
                        !.providerCalls = g.providerCalls,
                        !.to = << m.email >>,
                        !.result = g.result,
                        !.case = IF g.raised THEN "raised"
                                 ELSE IF g.result = "none" THEN "failed"
                                 ELSE "sent"]
              ELSE /\ mailing' = (mailing \ {m}) \cup
                        {[m EXCEPT !.pc = g.pc, !.resolved = resolved]}
                   /\ last' = [NoCall EXCEPT !.op = "gateway",
                                             !.case = g.case]
  /\ UNCHANGED << storeVars, now, keyVars, clicks, logoVars, notifying,
                  informing >>

\* line 89: order_by_child("verification/token").equal_to(token)
\* .limit_to_first(1): the matching user with the least key, or NoUser
Lookup(s, token) ==
  LET m == {u \in Users : s[u].token = token}
  IN  IF m = {} THEN NoUser ELSE CHOOSE u \in m : \A w \in m : u <= w

\* variant: >= in place of >
ExpiredAtDeadline(t, expires) == UtcNow(t).t >= expires.t

\* line 103: datetime.now(timezone.utc) > expires
Expired(t, expires) == After(UtcNow(t), expires)

\* lines 107-110: user_ref.update({"isVerified": True})
MarkVerified(rec) == [rec EXCEPT !.isVerified = TRUE]

\* variant: only expires is cleared
ClearExpiresOnly(rec) == [rec EXCEPT !.expires = NoExpires]

\* lines 112-115: verification.update({"token": None, "expires": None})
ClearVerification(rec) ==
  [rec EXCEPT !.token = NoToken, !.expires = NoExpires]

\* lines 82-101: what the request knows once its query is answered: the
\* status it ends with (0: it goes on to the expiry check), and the user
\* and the expires of the record the query returned
ClickQueried(s, token) ==
  IF token = NoToken
    THEN [status |-> 400, case |-> "missing", user |-> NoUser,
          expires |-> NoExpires]
  ELSE LET u == Lookup(s, token)
       IN  IF u = NoUser
             THEN [status |-> 404, case |-> "nomatch", user |-> NoUser,
                   expires |-> NoExpires]
           ELSE IF s[u].expires = NoExpires
             THEN [status |-> 404, case |-> "noexpires", user |-> u,
                   expires |-> NoExpires]
           ELSE [status |-> 0, case |-> "found", user |-> u,
                 expires |-> s[u].expires]

\* variant: an expired link is answered like an unknown one (404)
ExpiryOutcomeAs404(t, expires) ==
  IF Expired(t, FromIsoformat(expires))
    THEN [status |-> 404, case |-> "expired"]
    ELSE [status |-> 0, case |-> "fresh"]

\* lines 102-104: the clock is read and compared with the expires the
\* query returned (status 0: the request goes on to its writes)
ExpiryOutcome(t, expires) ==
  IF Expired(t, FromIsoformat(expires))
    THEN [status |-> 400, case |-> "expired"]
    ELSE [status |-> 0, case |-> "fresh"]

\* verification.handle_verification_click as the store sees it: a query,
\* a clock read and two separate writes, with other requests, triggers and
\* the clock in between

\* variant: the second write is dropped
AfterClearSkipped(s, u) == s

\* lines 112-115: the second write of a click, on whatever is stored then
AfterClear(s, u) == [s EXCEPT ![u] = ClearVerification(@)]

\* lines 107-110: the first write of a click
AfterMark(s, u) == [s EXCEPT ![u] = MarkVerified(@)]

\* lines 82-101: the query, answered from the store as it is then.  A
\* request without a token, without a match or whose match has no expires
\* is answered at once; any other goes on to the expiry check with the
\* record it was given.
ClickLookup(p, token) ==
  LET q == ClickQueried(store, token)
  IN  /\ clicks[p].pc = "idle"
      \* a new request takes the first free slot (slots are anonymous)
      /\ \A r \in Requesters : r < p => clicks[r].pc # "idle"
      /\ IF q.status = 0
           THEN /\ clicks' = [clicks EXCEPT
                               ![p] = [pc |-> "check", token |-> token,
                                       user |-> q.user,
                                       expires |-> q.expires]]
                /\ last' = [NoCall EXCEPT !.op = "lookup",
                                          !.token = token, !.user = q.user,
                                          !.looked = TRUE]
           ELSE /\ clicks' = clicks
                /\ last' = [NoCall EXCEPT !.op = "click", !.token = token,
                                          !.user = q.user,
                                          !.status = q.status,
                                          !.case = q.case, !.looked = TRUE]
      /\ UNCHANGED << storeVars, now, keyVars, cacheVars, logoVars,
                      mailing, notifying, informing >>

\* lines 102-104: the clock read, after the query was answered; an expired
\* link is answered 400, any other goes on to the two writes
ClickCheck(p) ==
  LET o == ExpiryOutcome(now, clicks[p].expires)
  IN  /\ clicks[p].pc = "check"
      /\ IF o.status = 0
           THEN /\ clicks' = [clicks EXCEPT ![p].pc = "mark"]
                /\ last' = [NoCall EXCEPT !.op = "check",
                                          !.token = clicks[p].token,
                                          !.user = clicks[p].user]
           ELSE /\ clicks' = [clicks EXCEPT ![p] = IdleClick]
                /\ last' = [NoCall EXCEPT !.op = "click",
                                          !.token = clicks[p].token,
                                          !.user = clicks[p].user,
                                          !.status = o.status,
                                          !.case = o.case]
      /\ UNCHANGED << storeVars, now, keyVars, cacheVars, logoVars,
                      mailing, notifying, informing >>

\* lines 107-110
ClickMark(p) ==
  /\ clicks[p].pc = "mark"
  /\ store' = AfterMark(store, clicks[p].user)
  /\ clicks' = [clicks EXCEPT ![p].pc = "clear"]
  /\ last' = [NoCall EXCEPT !.op = "mark", !.token = clicks[p].token,
                            !.user = clicks[p].user]
  /\ UNCHANGED << pending, now, nextToken, keyVars, cacheVars, issuedTo,
                  issuedAt, okCount, logoVars, mailing, notifying,
                  informing >>

\* lines 112-115 and 158: the second write, then the 200 page
ClickClear(p) ==
  /\ clicks[p].pc = "clear"
  /\ store' = AfterClear(store, clicks[p].user)
  /\ okCount' = IF clicks[p].token \in DOMAIN okCount
                  THEN [okCount EXCEPT ![clicks[p].token] = @ + 1]
                  ELSE okCount
  /\ clicks' = [clicks EXCEPT ![p] = IdleClick]
  /\ last' = [NoCall EXCEPT !.op = "click", !.token = clicks[p].token,
                            !.user = clicks[p].user, !.status = 200,
                            !.case = "ok"]
  /\ UNCHANGED << pending, now, nextToken, keyVars, cacheVars, issuedTo,
                  issuedAt, logoVars, mailing, notifying, informing >>

\* the clock
Tick ==
  /\ now < MaxTime
  /\ now' = now + 1
  /\ last' = NoCall
  /\ UNCHANGED << storeVars, keyVars, cacheVars, auxVars >>

\* a new function instance: module globals reset (resend_service.py lines
\* 15-16) and the secret binding / environment as deployed
KeyConfigs == {"unavailable", NoKey, "k1"} \X {NoKey, "k2"}

ColdStart ==
  /\ mailing = {}
  /\ \A k \in Notifiers : notifying[k].pc = "idle"
  /\ \A k \in Informers : informing[k].pc = "idle"
  /\ \E c \in KeyConfigs : secretKey' = c[1] /\ envKey' = c[2]
  /\ cachedKey' = NoKey
  /\ initialized' = FALSE
  /\ last' = NoCall
  /\ UNCHANGED << storeVars, now, auxVars >>

\* ------------------------------------------------ Notification Dispatcher
\* notifications.py line 31
\* the brand block of the debit alert

\* Python None; "" is the empty string
PyNone == "None"
DEFAULT_FINSYNC_LOGO_URL == "https://default/icon-dark.png"

\* d.get(k) on a dict given as a record
DictGet(d, k) == IF k \in DOMAIN d THEN d[k] ELSE PyNone

\* a or b
Or(a, b) == IF a \notin {PyNone, ""} THEN a ELSE b

\* lines 70-74, two arguments
coalesce(a, b) ==
  IF a \notin {PyNone, ""} THEN a
  ELSE IF b \notin {PyNone, ""} THEN b ELSE PyNone

\* lines 63-64 (the dash is written "-")
fmt(val) == IF val \notin {PyNone, ""} THEN val ELSE "-"

\* the logo sources of a notification: data.logoUrl, the notification's
\* logoUrl, the user's logoUrl and bankName, FINSYNC_LOGO_URL
LogoInputs ==
  [data : {PyNone, "", "https://p/logo.png"},
   notification : {PyNone, "", "https://n/logo.png"},
   user : {PyNone, "", "https://u/logo.png"},
   env : {PyNone, "", "https://e/logo.png"},
   bankName : {PyNone, "First Bank"}]

\* lines 188-196: the dict handed to the renderer (its logo-relevant keys)
Mapped(in) == [bankName |-> coalesce(in.bankName, "Finsync")]

\* lines 88-107: bank_name, logo_url and the brand block
render_debit_alert_html(data, in) ==
  LET bank_name == fmt(Or(DictGet(data, "bankName"), "finsync"))
      logo_url == Or(DictGet(data, "logoUrl"),
                     Or(in.notification,
                        Or(in.user, Or(in.env, DEFAULT_FINSYNC_LOGO_URL))))
  IN  IF logo_url \notin {PyNone, ""}
        THEN [tag |-> "img", src |-> logo_url, alt |-> bank_name \o " logo"]
        ELSE [tag |-> "span", src |-> "", alt |-> ""]

\* the logo sources used where the render is one step among others
LogoSamples ==
  {in \in LogoInputs :
     /\ in.user = PyNone /\ in.env = PyNone /\ in.bankName = PyNone
     /\ in.notification \notin {PyNone, ""} /\ in.data = PyNone}

\* line 35: data = notification.get("data", {}) leaves no payload logoUrl
\* when the record has no data
LogoInputsFor(n, ins) ==
  {in \in ins : n.data = "absent" => in.data = PyNone}

NotificationValid(n) == n.kind = "typed"

\* lines 36-51: the address to send to, NoEmail when the handler returns
\* before rendering (userId missing, user absent, no email)
NotificationRecipient(s, uid) ==
  IF uid = NoUser THEN NoEmail
  ELSE IF Falsy(s[uid]) THEN NoEmail
  ELSE s[uid].email

\* notifications.handle_email_notifications up to the rendered email
\* (lines 27-197): the validation, the read of /users/{userId} and the
\* render; in: the logo sources it reads (the record's data.logoUrl and
\* logoUrl, the user's logoUrl and bankName, FINSYNC_LOGO_URL).  The
\* invocation ends here on an early return or on the exception of line
\* 189; otherwise it goes on to the gateway.
NotifyRead(k, n, uid, in) ==
  /\ notifying[k].pc = "idle"
  \* a new invocation takes the first free slot (slots are anonymous)
  /\ \A q \in Notifiers : q < k => notifying[q].pc # "idle"
  /\ LET email == IF NotificationValid(n)
                    THEN NotificationRecipient(store, uid) ELSE NoEmail
     IN  IF email = NoEmail
           THEN /\ last' = [NoCall EXCEPT !.op = "notify", !.user = uid,
                     !.notif = n, !.looked = TRUE,
                     !.case = IF ~NotificationValid(n) THEN "invalid"
                              ELSE IF uid = NoUser THEN "nouserid"
                              ELSE IF Falsy(store[uid]) THEN "nouser"
                              ELSE "noemail"]
                /\ UNCHANGED << logoVars, notifying >>
         ELSE IF n.data = "scalar"
           \* line 189: data.get on a value that is no dict raises
           \* AttributeError, outside the try of line 205
           THEN /\ last' = [NoCall EXCEPT !.op = "notify", !.user = uid,
                     !.notif = n, !.looked = TRUE, !.raised = TRUE,
                     !.case = "baddata"]
                /\ UNCHANGED << logoVars, notifying >>
           ELSE /\ in \in LogoInputsFor(n, LogoInputs)
                /\ logoIn' = in
                /\ logoOut' = render_debit_alert_html(Mapped(in), in)
                /\ notifying' = [notifying EXCEPT
                     ![k] = [pc |-> "send", user |-> uid, email |-> email,
                             notif |-> n, resolved |-> FALSE]]
                /\ last' = [NoCall EXCEPT !.op = "render", !.user = uid,
                     !.notif = n, !.looked = TRUE, !.to = << email >>]
  /\ UNCHANGED << storeVars, now, keyVars, cacheVars, clicks, mailing,
                  informing >>

\* lines 198-215: one step of the send_email call of an invocation that
\* rendered its email; the call is inside try/except and its result is
\* ignored
NotifySend(k, provider) ==
  /\ notifying[k].pc \in GatewayPcs
  /\ LET g == GatewayStep(notifying[k].pc, Cache, secretKey, envKey,
                          provider)
         resolved == notifying[k].resolved \/ g.resolves
         n == notifying[k].notif
     IN  /\ cachedKey' = g.cache.key
         /\ initialized' = g.cache.init
         /\ IF g.done
              THEN /\ notifying' = [notifying EXCEPT ![k] = IdleNotify]
                   /\ last' = [NoCall EXCEPT
                        !.op = "notify", !.user = notifying[k].user,
                        !.notif = n, !.raised = FALSE,
                        !.gwRaised = g.raised, !.resolved = resolved,
                        !.provider = IF g.providerCalls = 0 THEN "none"
                                     ELSE provider,
                        !.gatewayCalls = 1,
                        !.providerCalls = g.providerCalls,
                        !.to = << notifying[k].email >>,
                        !.subject = IF n.title # "" THEN n.title
                                    ELSE "Debit Alert!",
                        !.result = g.result,
                        !.case = IF g.raised THEN "caught"
                                 ELSE IF g.result = "none" THEN "failed"
                                 ELSE "sent"]
              ELSE /\ notifying' = [notifying EXCEPT
                        ![k].pc = g.pc, ![k].resolved = resolved]
                   /\ last' = [NoCall EXCEPT !.op = "gateway",
                                             !.case = g.case]
  /\ UNCHANGED << storeVars, now, keyVars, clicks, mailing, logoVars,
                  informing >>

\* ------------------------------------------------- HTTP: send_informative
\* informative_http.py lines 63-68: a string, or a list of strings only
ToAccepted(j) ==
  \/ j.t = "str"
  \/ j.t = "list" /\ \A i \in 1..Len(j.items) : j.items[i].t = "str"

\* lines 63-66: to_list of an accepted value
NormalizeTo(j) ==
  IF j.t = "str" THEN << j.s >>
  ELSE [i \in 1..Len(j.items) |-> j.items[i].s]

\* lines 45-73: what the request is answered before any send (status 0:
\* it goes on to send_informative_email); raised is an exception that
\* leaves the handler (data.get on a non-object)
InformativeChecked(req) ==
  LET none == [status |-> 0, raised |-> FALSE, to |-> << >>,
               subject |-> "", case |-> "none"]
  IN  IF req.method # "POST"
        THEN [none EXCEPT !.status = 405, !.case = "method"]
      ELSE IF req.kind = "array"
        THEN [none EXCEPT !.raised = TRUE, !.case = "nonobject"]
      ELSE LET subject == IF req.kind = "object" THEN req.subject ELSE JNull
               body == IF req.kind = "object" THEN req.body ELSE JNull
               to == IF req.kind = "object" THEN req.to ELSE JNull
           IN  IF ~Truthy(subject) \/ ~Truthy(body) \/ ~Truthy(to)
                 THEN [none EXCEPT !.status = 400, !.case = "missing"]
               ELSE IF ~ToAccepted(to)
                 THEN [none EXCEPT !.status = 400, !.case = "badto"]
               ELSE [none EXCEPT !.to = NormalizeTo(to),
                       !.subject = subject.s, !.case = "accepted"]

\* informative_http.send_informative up to its send (lines 28-73): a
\* request that fails the checks is answered at once, any other goes on to
\* the gateway
send_informative(k, req) ==
  /\ informing[k].pc = "idle"
  \* a new request takes the first free slot (slots are anonymous)
  /\ \A q \in Informers : q < k => informing[q].pc # "idle"
  /\ LET c == InformativeChecked(req)
     IN  IF c.status = 0 /\ ~c.raised
           THEN /\ informing' = [informing EXCEPT
                     ![k] = [pc |-> "send", req |-> req,
                             resolved |-> FALSE]]
                /\ last' = [NoCall EXCEPT !.op = "accepted", !.req = req]
           ELSE /\ informing' = informing
                /\ last' = [NoCall EXCEPT
                     !.op = "informative", !.req = req,
                     !.status = c.status, !.raised = c.raised,
                     !.case = c.case]
  /\ UNCHANGED << storeVars, now, keyVars, cacheVars, clicks, logoVars,
                  mailing, notifying >>

\* lines 75-94: one step of the send_email call that
\* informative_email.send_informative_email makes for an accepted request;
\* the call's exception is answered 500, anything it returns 200
InformSend(k, provider) ==
  /\ informing[k].pc \in GatewayPcs
  /\ LET g == GatewayStep(informing[k].pc, Cache, secretKey, envKey,
                          provider)
         resolved == informing[k].resolved \/ g.resolves
         c == InformativeChecked(informing[k].req)
     IN  /\ cachedKey' = g.cache.key
         /\ initialized' = g.cache.init
         /\ IF g.done
              THEN /\ informing' = [informing EXCEPT ![k] = IdleInform]
                   /\ last' = [NoCall EXCEPT
                        !.op = "informative", !.req = informing[k].req,
                        !.status = IF g.raised THEN 500 ELSE 200,
                        !.raised = FALSE, !.gwRaised = g.raised,
                        !.resolved = resolved,
                        !.provider = IF g.providerCalls = 0 THEN "none"
                                     ELSE provider,
                        !.gatewayCalls = 1,
                        !.providerCalls = g.providerCalls,
                        !.to = IF g.raised THEN << >> ELSE c.to,
                        !.subject = IF g.raised THEN "" ELSE c.subject,
                        !.result = g.result,
                        !.case = IF g.raised THEN "error" ELSE "ok"]
              ELSE /\ informing' = [informing EXCEPT
                        ![k].pc = g.pc, ![k].resolved = resolved]
                   /\ last' = [NoCall EXCEPT !.op = "gateway",
                                             !.case = g.case]
  /\ UNCHANGED << storeVars, now, keyVars, clicks, logoVars, mailing,
                  notifying >>

\* test_resend.py lines 5-18: the script is a process of its own; its
\* send_email starts on that process's empty globals and leaves the
\* function instance's globals alone
test_resend(provider) ==
  /\ LET g == send_email([key |-> NoKey, init |-> FALSE], secretKey,
                         envKey, provider)
     IN  last' = [NoCall EXCEPT
              !.op = "send", !.raised = g.raised, !.gwRaised = g.raised,
              !.resolved = g.resolved,
              !.provider = IF g.providerCalls = 0 THEN "none" ELSE provider,
              !.gatewayCalls = 1, !.providerCalls = g.providerCalls,
              !.to = << "delivered@resend.dev" >>, !.subject = "hi",
              !.result = g.result,
              !.case = IF g.raised THEN "raised"
                       ELSE IF g.result = "none" THEN "failed" ELSE "sent"]
  /\ UNCHANGED << storeVars, now, keyVars, cacheVars, auxVars >>

\* the state of a new deployment, fixed key configuration
Init ==
  /\ store = [u \in Users |-> NoRecord]
  /\ pending = {}
  /\ now = 0
  /\ nextToken = 0
  /\ secretKey = "k1"
  /\ envKey = NoKey
  /\ cachedKey = NoKey
  /\ initialized = FALSE
  /\ issuedTo = [k \in 1..MaxTokens |-> NoUser]
  /\ issuedAt = [k \in 1..MaxTokens |-> 0]
  /\ okCount = [k \in 1..MaxTokens |-> 0]
  /\ last = NoCall
  /\ AuxInit

\* one request at a time against the triggers and the clock (requests that
\* overlap each other are in SpecConc and SpecRace)
Next ==
  \/ \E u \in Users, data \in CreatedRecords \cup {NoRecord} :
       UserCreated(u, data)
  \/ \E ev \in pending, again \in BOOLEAN : IssueStart(ev, again)
  \/ \E m \in mailing : IssueWrite(m)
  \/ \E m \in mailing, provider \in {"ok", "raise"} :
       IssueDeliver(m, provider)
  \/ \E token \in TokenValues \cup {NoToken} : ClickLookup(1, token)
  \/ ClickCheck(1)
  \/ ClickMark(1)
  \/ ClickClear(1)
  \/ Tick

Spec == Init /\ [][Next]_vars

\* ----------------------------------------------------- the mail handlers
\* The handlers that only read /users, on a database the account system
\* has filled, under every deployment of the API key.
InitMail ==
  /\ store \in [Users -> {r \in CreatedRecords :
                             r.token = NoToken /\ ~r.isVerified
                             /\ r.profileEmail # NoEmail}
                          \cup {NoRecord}]
  /\ pending = {}
  /\ now = 0
  /\ nextToken = 0
  /\ \E c \in KeyConfigs : secretKey = c[1] /\ envKey = c[2]
  /\ cachedKey = NoKey
  /\ initialized = FALSE
  /\ issuedTo = [k \in 1..MaxTokens |-> NoUser]
  /\ issuedAt = [k \in 1..MaxTokens |-> 0]
  /\ okCount = [k \in 1..MaxTokens |-> 0]
  /\ last = NoCall
  /\ AuxInit

\* the requests that tell the gateway paths of send_informative apart: one
\* that is sent, one that is refused before the gateway
MailRequests ==
  {req \in Requests :
     /\ req.method = "POST" /\ req.subject = JStr("Hi")
     /\ req.body = JStr("text") /\ req.to \in {JStr("a@b.com"), JNum("5")}}

\* the notification records that tell the paths of the dispatcher apart:
\* one that is sent, one whose payload raises, one that is refused
MailNotifications ==
  {n \in Notifications :
     /\ n.title = ""
     /\ n.kind \in {"typed", "notype"}
     /\ n.kind = "typed" => n.data \in {"absent", "scalar"}}

\* every handler that mails, in one function instance
NextMail ==
  \/ \E k \in Notifiers, n \in MailNotifications,
        uid \in Users \cup {NoUser}, in \in LogoSamples :
       NotifyRead(k, n, uid, in)
  \/ \E k \in Notifiers, provider \in {"ok", "raise"} :
       NotifySend(k, provider)
  \/ \E k \in Informers, req \in MailRequests : send_informative(k, req)
  \/ \E k \in Informers, provider \in {"ok", "raise"} :
       InformSend(k, provider)
  \/ \E provider \in {"ok", "raise"} : test_resend(provider)
  \/ ColdStart

SpecMail == InitMail /\ [][NextMail]_vars

\* the send_informative endpoint over all request shapes
NextHttp ==
  \/ \E k \in Informers, req \in Requests : send_informative(k, req)
  \/ \E k \in Informers, provider \in {"ok", "raise"} :
       InformSend(k, provider)
  \/ ColdStart

SpecHttp == InitMail /\ [][NextHttp]_vars

\* ------------------------------------------------------ the two triggers
\* Both database triggers, under every deployment of the API key.
InitTrigger ==
  /\ store = [u \in Users |-> NoRecord]
  /\ pending = {}
  /\ now = 0
  /\ nextToken = 0
  /\ \E c \in KeyConfigs : secretKey = c[1] /\ envKey = c[2]
  /\ cachedKey = NoKey
  /\ initialized = FALSE
  /\ issuedTo = [k \in 1..MaxTokens |-> NoUser]
  /\ issuedAt = [k \in 1..MaxTokens |-> 0]
  /\ okCount = [k \in 1..MaxTokens |-> 0]
  /\ last = NoCall
  /\ AuxInit

NextTrigger ==
  \/ \E u \in Users, data \in CreatedRecords \cup {NoRecord} :
       UserCreated(u, data)
  \/ \E ev \in pending, again \in BOOLEAN : IssueStart(ev, again)
  \/ \E m \in mailing : IssueWrite(m)
  \/ \E m \in mailing, provider \in {"ok", "raise"} :
       IssueDeliver(m, provider)
  \/ \E k \in Notifiers, n \in MailNotifications,
        uid \in Users \cup {NoUser}, in \in LogoSamples :
       NotifyRead(k, n, uid, in)
  \/ \E k \in Notifiers, provider \in {"ok", "raise"} :
       NotifySend(k, provider)
  \/ ColdStart

SpecTrigger == InitTrigger /\ [][NextTrigger]_vars

\* ---- the debit alerts sent to users who have an email, over all
\* ---- combinations of the logo sources
LogoNotifications ==
  {n \in Notifications :
     n.kind = "typed" /\ n.data # "scalar" /\ n.title = ""}

InitLogo ==
  /\ InitMail
  /\ \A u \in Users : ~Falsy(store[u]) /\ store[u].email # NoEmail
  /\ secretKey = "k1" /\ envKey = NoKey

NextLogo ==
  \/ \E k \in Notifiers, n \in LogoNotifications, uid \in Users,
        in \in LogoInputs :
       NotifyRead(k, n, uid, in)
  \/ \E k \in Notifiers : NotifySend(k, "ok")

SpecLogo == InitLogo /\ [][NextLogo]_vars

\* users with a top-level email, created unverified
ConcRecords == {r \in CreatedRecords :
                  r # NoRecord /\ ~r.isVerified /\ r.email # NoEmail
                  /\ r.token = NoToken}

NextConc ==
  \/ \E u \in Users, data \in ConcRecords : UserCreated(u, data)
  \/ \E ev \in pending, again \in BOOLEAN : IssueStart(ev, again)
  \/ \E m \in mailing : IssueWrite(m)
  \/ \E m \in mailing : IssueDeliver(m, "ok")
  \/ \E p \in Requesters, token \in TokenValues : ClickLookup(p, token)
  \/ \E p \in Requesters : ClickCheck(p)
  \/ \E p \in Requesters : ClickMark(p)
  \/ \E p \in Requesters : ClickClear(p)

\* the interleavings of one instant: every token issued here is unexpired
SpecConc == Init /\ [][NextConc]_vars

\* overlapping requests around tokens that are issued once (every creation
\* event is delivered exactly once), with the clock
NextRace ==
  \/ \E u \in Users, data \in ConcRecords : UserCreated(u, data)
  \/ \E ev \in pending : IssueStart(ev, FALSE)
  \/ \E m \in mailing : IssueWrite(m)
  \/ \E m \in mailing : IssueDeliver(m, "ok")
  \* the links that were made: requests carry the tokens produced so far
  \/ \E p \in Requesters, token \in 1..nextToken : ClickLookup(p, token)
  \/ \E p \in Requesters : ClickCheck(p)
  \/ \E p \in Requesters : ClickMark(p)
  \/ \E p \in Requesters : ClickClear(p)
  \/ Tick

SpecRace == Init /\ [][NextRace]_vars

\* ================================================================ claims
\* The token of a click step, and the user and time it was issued to/at.
IssuedTokens == 1..MaxTokens

\* C1: single use, sequential case.  A request for an issued token T whose
\* query is answered while T is stored goes on to the expiry check, and
\* passes it when the clock it reads there (line 103) is not after T's
\* expires; the request that passed answers 200 and leaves T stored nowhere
\* and its user verified; every request for T whose query is made after a
\* 200 for T answers 404 and changes nothing.
C1_SingleUseSequential ==
  [][\A T \in IssuedTokens :
       issuedTo[T] # NoUser =>
         LET u == issuedTo[T]
         IN  /\ (last'.looked /\ last'.token = T /\ okCount[T] >= 1) =>
                  (last'.op = "click" /\ last'.status = 404
                   /\ store' = store)
             /\ (last'.looked /\ last'.token = T /\ okCount[T] = 0
                 /\ store[u].token = T) =>
                  last'.op = "lookup"
             /\ \A p \in Requesters :
                  (/\ clicks[p].pc = "check" /\ clicks'[p] # clicks[p]
                   /\ clicks[p].token = T
                   /\ now <= issuedAt[T] + OneHour) =>
                    (last'.op = "check" /\ clicks'[p].pc = "mark")
             /\ (last'.token = T /\ last'.op = "click"
                 /\ last'.case = "ok") =>
                  /\ last'.status = 200
                  /\ \A w \in Users : store'[w].token # T
                  /\ store'[u].isVerified]_vars

\* a second click on a consumed token, made with no other request in
\* flight, was answered 404
C1_Witness ==
  /\ last.op = "click" /\ last.token \in IssuedTokens
  /\ last.status = 404 /\ okCount[last.token] = 1
  /\ \A p \in Requesters : clicks[p].pc = "idle"

\* C2: the expiry check compares the clock it reads with the expires the
\* query returned for the token: when the clock is strictly after it the
\* request answers 400, and neither its query nor its check has written
\* anything; when the clock is at or before it the token is accepted.
C2_ExpiredNoWrite ==
  [][/\ \A p \in Requesters :
          (clicks[p].pc = "check" /\ clicks'[p] # clicks[p]) =>
            /\ store' = store
            /\ IF now > clicks[p].expires[1]
                 THEN /\ clicks'[p] = IdleClick
                      /\ last'.op = "click" /\ last'.status = 400
                      /\ last'.token = clicks[p].token
                 ELSE clicks'[p].pc = "mark"
     /\ \A p \in Requesters :
          (clicks[p].pc = "idle" /\ clicks'[p].pc = "check") =>
            /\ store' = store
            /\ store[clicks'[p].user].token = clicks'[p].token
            /\ clicks'[p].expires = store[clicks'[p].user].expires]_vars

\* a click on a token that is still stored with an expires in the past was
\* answered 400
C2_Witness ==
  /\ last.op = "click" /\ last.status = 400 /\ last.user \in Users
  /\ store[last.user].token = last.token
  /\ store[last.user].expires # NoExpires
  /\ now > store[last.user].expires[1]

\* C3: reissue supersedes.  An issue writes its token and its expires
\* together, so the record holds exactly the new pair; and while the
\* record holds a pair written after token T of the same user, a click
\* with T is answered 404, passes no check and writes nothing.
C3_ReissueSupersedes ==
  [][/\ \A m \in mailing :
          (last'.wrote /\ last'.token = m.token) =>
            /\ store'[m.user].token = m.token
            /\ store'[m.user].expires = Isoformat(m.expires)
     /\ \A T \in IssuedTokens :
          (/\ issuedTo[T] # NoUser
           /\ store[issuedTo[T]].token \in IssuedTokens \ {T}
           /\ last'.token = T
           /\ last'.op \in {"lookup", "check", "mark", "click"})
          => (last'.op = "click" /\ last'.status = 404
              /\ store' = store)]_vars

\* C4: expiry window.  A token whose issuance read the clock at t is
\* stored with expires = t + 1 hour; a click on it whose query finds it
\* stored goes on to the expiry check, passes it when the clock read there
\* is at most t + 1 hour, and then answers 200, and is answered 400 when
\* that clock is later.
C4_ExpiryWindow ==
  [][/\ last'.op = "start" => issuedAt'[last'.token] = now
     /\ last'.wrote =>
          /\ store'[last'.user].token = last'.token
          /\ store'[last'.user].expires =
               << issuedAt[last'.token] + OneHour, "+00:00" >>
     /\ \A T \in IssuedTokens :
          (/\ last'.looked /\ last'.token = T
           /\ issuedTo[T] # NoUser /\ store[issuedTo[T]].token = T) =>
            last'.op = "lookup"
     /\ \A p \in Requesters :
          (/\ clicks[p].pc = "check" /\ clicks'[p] # clicks[p]
           /\ clicks[p].token \in IssuedTokens) =>
            IF now <= issuedAt[clicks[p].token] + OneHour
              THEN clicks'[p].pc = "mark"
              ELSE last'.op = "click" /\ last'.status = 400
     /\ \A p \in Requesters :
          (clicks[p].pc = "mark" /\ clicks'[p] # clicks[p]) =>
            clicks'[p].pc = "clear"
     /\ \A p \in Requesters :
          (clicks[p].pc = "clear" /\ clicks'[p] # clicks[p]) =>
            (last'.op = "click" /\ last'.status = 200)]_vars

\* a click passed the expiry check exactly one hour after the clock read
\* of the issue
C4_Witness ==
  /\ last.op = "check" /\ last.token \in IssuedTokens
  /\ now = issuedAt[last.token] + OneHour

\* C5: the trigger is a no-op on an absent or already verified event
\* record: it ends normally, the store keeps its value, no token is
\* produced and the gateway is not called.
C5_IssueNoop ==
  [][\A ev \in pending :
       (/\ last'.op \in {"issue", "start", "write"}
        /\ last'.user = ev.userId
        /\ (ev.data = NoRecord \/ ev.data.isVerified)) =>
         /\ last'.op = "issue" /\ ~last'.raised
         /\ store' = store
         /\ nextToken' = nextToken
         /\ mailing' = mailing
         /\ last'.gatewayCalls = 0 /\ last'.providerCalls = 0]_vars

\* the trigger ran on a verified record and left the store without token
C5_Witness ==
  /\ last.op = "issue" /\ last.case = "skip" /\ last.gatewayCalls = 0
  /\ store[last.user].isVerified /\ store[last.user].token = NoToken

\* C6: a click has exactly one outcome, decided in this order: no token
\* 400; no record with that token when the query is answered 404; that
\* record without expires 404; the clock read after the query strictly
\* after that record's expires 400; otherwise 200.  Only the 200 outcome
\* writes.
\* the status the query step ends with (0: it goes on to the expiry check)
C6_Expected(token) ==
  IF token = NoToken THEN 400
  ELSE IF \A u \in Users : store[u].token # token THEN 404
  ELSE LET u == CHOOSE u \in Users :
                  /\ store[u].token = token
                  /\ \A w \in Users : store[w].token = token => u <= w
       IN  IF store[u].expires = NoExpires THEN 404 ELSE 0

C6_ClickOutcomes ==
  [][/\ last'.looked =>
          /\ IF C6_Expected(last'.token) = 0
               THEN last'.op = "lookup"
               ELSE /\ last'.op = "click"
                    /\ last'.status = C6_Expected(last'.token)
                    /\ clicks' = clicks
          /\ store' = store
     /\ \A p \in Requesters :
          (clicks[p].pc = "idle" /\ clicks'[p] # clicks[p]) =>
            /\ last'.op = "lookup" /\ clicks'[p].pc = "check"
            /\ clicks'[p].token = last'.token
            /\ store[clicks'[p].user].token = last'.token
            /\ clicks'[p].expires = store[clicks'[p].user].expires
     /\ \A p \in Requesters :
          (clicks[p].pc # "idle" /\ clicks'[p] # clicks[p]) =>
            CASE clicks[p].pc = "check" ->
                   /\ store' = store
                   /\ IF now > clicks[p].expires[1]
                        THEN /\ clicks'[p].pc = "idle"
                             /\ last'.op = "click" /\ last'.status = 400
                        ELSE clicks'[p].pc = "mark"
              [] clicks[p].pc = "mark" -> clicks'[p].pc = "clear"
              [] clicks[p].pc = "clear" ->
                   /\ clicks'[p].pc = "idle"
                   /\ last'.op = "click" /\ last'.status = 200
     /\ last'.op = "click" => last'.status \in {200, 400, 404}]_vars

\* a click matched a record that has a token and no expires: 404
C6_Witness ==
  /\ last.op = "click" /\ last.status = 404 /\ last.user \in Users
  /\ store[last.user].token = last.token
  /\ store[last.user].expires = NoExpires

\* C7: neither trigger handler lets an exception escape, whatever the
\* credential resolution and the provider call do.
C7_TriggersNeverRaise ==
  last.op \in {"issue", "notify"} => ~last.raised

\* C8: gateway soft failure.  When the key is resolved and the provider
\* call raises, send_email returns None without raising, and the provider
\* call leaves the cached key and the flag as they were; when the provider
\* returns, send_email returns the provider's response.
C8_GatewaySoftFailure ==
  [][(last'.op \in {"send", "notify", "informative"}
      /\ last'.providerCalls = 1) =>
       /\ (last'.provider = "raise") =>
            (last'.result = "none" /\ ~last'.gwRaised)
       /\ (last'.provider = "ok") =>
            (last'.result = "resp" /\ ~last'.gwRaised)
       /\ cachedKey' = cachedKey /\ initialized' = initialized
       /\ IF last'.op = "send"
            \* the script's own process: its cache ends initialized
            THEN LET g == send_email([key |-> NoKey, init |-> FALSE],
                                     secretKey, envKey, last'.provider)
                 IN  CacheWarm(g.cache) /\ g.result = last'.result
            ELSE initialized /\ cachedKey # NoKey]_vars

\* a notification whose provider call raised ended with None, the
\* instance still initialized
C8_Witness ==
  /\ last.op = "notify" /\ last.provider = "raise"
  /\ last.providerCalls = 1
  /\ last.result = "none" /\ ~last.gwRaised
  /\ initialized /\ cachedKey # NoKey

\* C9: send_informative answers by the first matching rule: not POST 405;
\* subject, body or to missing or empty 400; to neither a string nor a
\* list of strings 400; the send raises 500; otherwise 200 echoing to and
\* subject, a bare string to as a one-element list.  The gateway is not
\* called on 405 and 400 and at most once per request.
C9_Present(req, j) == req.kind = "object" /\ Truthy(j)

C9_InformativeRules ==
  last.op = "informative" =>
    LET r == last.req
        missing == \/ ~C9_Present(r, r.subject)
                   \/ ~C9_Present(r, r.body)
                   \/ ~C9_Present(r, r.to)
        strings == /\ r.to.t = "list"
                   /\ \A i \in 1..Len(r.to.items) : r.to.items[i].t = "str"
        expected == IF r.method # "POST" THEN 405
                    ELSE IF missing THEN 400
                    ELSE IF r.to.t # "str" /\ ~strings THEN 400
                    ELSE IF last.gwRaised THEN 500
                    ELSE 200
    IN  /\ ~last.raised
        /\ last.status = expected
        /\ last.status \in {400, 405} => last.gatewayCalls = 0
        /\ last.gatewayCalls <= 1
        /\ last.status = 200 =>
             /\ last.subject = r.subject.s
             /\ last.to = IF r.to.t = "str" THEN << r.to.s >>
                          ELSE [i \in 1..Len(r.to.items) |-> r.to.items[i].s]

\* C10: notification dispatch ends without a gateway call when the record
\* is not a mapping with a type, userId is missing, the user is absent or
\* has no email; otherwise it goes on to call the gateway, exactly once, to
\* that email, whatever the send returns.  It never writes to the store.
C10_NotifyAtMostOnce ==
  [][/\ (last'.looked /\ last'.op \in {"notify", "render"}) =>
          LET n == last'.notif
              uid == last'.user
              valid == /\ n.kind = "typed" /\ uid \in Users
                       /\ store[uid] # NoRecord
                       /\ store[uid].email # NoEmail
          IN  /\ last'.gatewayCalls = 0
              /\ IF valid
                   THEN /\ last'.op = "render"
                        /\ last'.to = << store[uid].email >>
                   ELSE last'.op = "notify" /\ notifying' = notifying
     /\ \A k \in Notifiers :
          (notifying[k].pc \in GatewayPcs
           /\ notifying'[k] # notifying[k]) =>
            \/ /\ notifying'[k] = IdleNotify
               /\ last'.op = "notify" /\ last'.gatewayCalls = 1
               /\ last'.providerCalls <= 1
               /\ last'.to = << notifying[k].email >>
            \/ /\ notifying'[k].pc \in GatewayPcs \ {"send"}
               /\ notifying'[k].email = notifying[k].email
               /\ notifying'[k].notif = notifying[k].notif
               /\ last'.op = "gateway" /\ last'.gatewayCalls = 0
     /\ last'.op \in {"notify", "render"} => store' = store]_vars

\* C13: the logo of a rendered debit alert is the first non-empty of the
\* payload's logoUrl, the notification's logoUrl, the user's logoUrl, the
\* FINSYNC_LOGO_URL value and the default URL, and the placeholder block
\* appears only when all of them are empty.
C13_LogoPrecedence ==
  logoOut # NoLogoOut =>
    LET first == Or(logoIn.data,
                    Or(logoIn.notification,
                       Or(logoIn.user,
                          Or(logoIn.env, DEFAULT_FINSYNC_LOGO_URL))))
    IN  /\ first \notin {PyNone, ""} =>
             logoOut.tag = "img" /\ logoOut.src = first
        /\ logoOut.tag = "span" => first \in {PyNone, ""}

\* C11: the query of a request for an issued token finds the token only
\* while no request for that token has cleared it yet, so a second 200 for
\* the same token comes from a query that ran before the first request's
\* clear.
C11_LookupBeforeClear ==
  [][\A p \in Requesters :
       (clicks[p].pc = "idle" /\ clicks'[p].pc = "check"
        /\ clicks'[p].token \in IssuedTokens)
         => okCount[clicks'[p].token] = 0]_vars

\* two requests carrying the same unexpired token were both answered 200
C11_Witness ==
  /\ last.op = "click" /\ last.status = 200
  /\ last.token \in IssuedTokens
  /\ okCount[last.token] = 2

\* the send_email calls in flight in the instance: whose call, where it
\* stands, and whether it has resolved the key
C12_Calls ==
  {[of |-> << "issue", m.token >>, pc |-> m.pc, resolved |-> m.resolved] :
     m \in {x \in mailing : x.pc \in GatewayPcs}}
  \cup
  {[of |-> << "notify", k >>, pc |-> notifying[k].pc,
    resolved |-> notifying[k].resolved] :
     k \in {j \in Notifiers : notifying[j].pc \in GatewayPcs}}
  \cup
  {[of |-> << "informative", k >>, pc |-> informing[k].pc,
    resolved |-> informing[k].resolved] :
     k \in {j \in Informers : informing[j].pc \in GatewayPcs}}

\* C12: a send_email call that tests the cache after a call of the process
\* completed initialization skips resolution; a call that tests it before
\* resolves the key, the secret binding before the environment, caches it
\* and goes on to the provider (a call that tested the cache before another
\* initialized it resolves again and writes the same key), or, with no key
\* from either, raises before any provider call and caches nothing, so that
\* the next send resolves again.  The cached key, once set, never changes.
C12_CredentialCache ==
  [][LET key == IF secretKey \notin {"unavailable", NoKey}
                  THEN secretKey ELSE envKey
         warm == initialized /\ cachedKey # NoKey
         left(c) == C12_Calls' = C12_Calls \ {c}
         moved(c, d) == C12_Calls' = (C12_Calls \ {c}) \cup {d}
         same == cachedKey' = cachedKey /\ initialized' = initialized
     IN  /\ \A c \in C12_Calls : c \notin C12_Calls' =>
              CASE c.pc = "send" ->
                     /\ ~c.resolved /\ same
                     /\ moved(c, [c EXCEPT !.pc = IF warm THEN "provider"
                                                  ELSE "resolve"])
                [] c.pc = "resolve" ->
                     IF key = NoKey
                       THEN /\ left(c) /\ same
                            /\ last'.gatewayCalls = 1 /\ last'.gwRaised
                            /\ last'.providerCalls = 0 /\ last'.resolved
                       ELSE /\ moved(c, [c EXCEPT !.pc = "flag",
                                                  !.resolved = TRUE])
                            /\ cachedKey' = key
                            /\ initialized' = initialized
                [] c.pc = "flag" ->
                     /\ moved(c, [c EXCEPT !.pc = "provider"])
                     /\ initialized' /\ cachedKey' = cachedKey
                     /\ cachedKey = key
                [] c.pc = "provider" ->
                     /\ left(c) /\ same /\ warm
                     /\ last'.gatewayCalls = 1 /\ ~last'.gwRaised
                     /\ last'.providerCalls = 1
                     /\ last'.resolved = c.resolved
         /\ (cachedKey # NoKey /\ cachedKey' # NoKey) =>
              cachedKey' = cachedKey
         /\ ~same =>
              \/ \E c \in C12_Calls :
                   c \notin C12_Calls' /\ c.pc \in {"resolve", "flag"}
              \/ C12_Calls = {} /\ cachedKey' = NoKey /\ ~initialized'
         /\ last'.op = "send" =>
              /\ same /\ last'.resolved
              /\ IF key = NoKey
                   THEN last'.gwRaised /\ last'.providerCalls = 0
                   ELSE ~last'.gwRaised /\ last'.providerCalls = 1]_vars

\* a send that found the cache initialized, where both sources hold a key
C12_Witness ==
  /\ last.gatewayCalls = 1 /\ ~last.resolved
  /\ initialized /\ cachedKey = secretKey /\ envKey # NoKey
  /\ envKey # secretKey

\* C12 as stated: a call resolves the key only if no send_email of the
\* process has completed initialization.
C12_ResolvesOnlyUninitialized ==
  [][\A c \in C12_Calls :
       (c \notin C12_Calls' /\ c.pc = "resolve") => ~initialized]_vars

\* C14: in every state of the store, a user whose isVerified is true has
\* no stored verification token and no stored expires.
C14_VerifiedHasNoToken ==
  \A u \in Users :
    (store[u] # NoRecord /\ store[u].isVerified) =>
      (store[u].token = NoToken /\ store[u].expires = NoExpires)

\* C15: the clear of a successful click for token T leaves a different
\* token stored for that user since the lookup, and its expires, in place.
C15_ClearsOnlyItsToken ==
  [][\A p \in Requesters :
       (clicks[p].pc = "clear" /\ clicks'[p].pc = "idle"
        /\ store[clicks[p].user].token \notin {NoToken, clicks[p].token})
         => /\ store'[clicks[p].user].token = store[clicks[p].user].token
            /\ store'[clicks[p].user].expires =
                 store[clicks[p].user].expires]_vars

\* C16: after an issuance that ended without an email handed to the
\* gateway (no email in the record, or no API key), the token it produced
\* is not stored for the user.
C16_NoUnmailedToken ==
  (/\ last.op = "issue" /\ last.token # NoToken
   /\ (last.gatewayCalls = 0 \/ last.gwRaised)) =>
    store[last.user].token # last.token

\* C17: send_informative answers 200 (ok = true) only for a request whose
\* provider send call returned a response.
C17_OkOnlyIfProviderResponded ==
  (last.op = "informative" /\ last.status = 200) =>
    (last.providerCalls = 1 /\ last.provider = "ok"
     /\ last.result = "resp")

TypeOK ==
  /\ store \in [Users -> [hasProfile : BOOLEAN, email : Emails \cup {NoEmail},
        profileEmail : Emails \cup {NoEmail}, isVerified : BOOLEAN,
        token : TokenValues \cup {NoToken},
        expires : {NoExpires} \cup (Times \cup (MaxTime+1..MaxTime+OneHour))
                                   \X {"+00:00"}]]
  /\ now \in Times
  /\ nextToken \in 0..MaxTokens
  /\ clicks \in [Requesters -> [pc : {"idle", "check", "mark", "clear"},
        token : TokenValues \cup {NoToken},
        user : Users \cup {NoUser},
        expires : {NoExpires} \cup (Times \cup (MaxTime+1..MaxTime+OneHour))
                                   \X {"+00:00"}]]
  /\ mailing \subseteq [pc : {"write"} \cup GatewayPcs, resolved : BOOLEAN,
        user : Users,
        token : 1..MaxTokens, data : CreatedRecords,
        expires : [t : Times \cup (MaxTime+1..MaxTime+OneHour),
                   tz : {"utc"}],
        email : Emails \cup {NoEmail}]
  /\ logoIn \in LogoInputs \cup {NoLogoIn}
  /\ notifying \in [Notifiers -> [pc : {"idle"} \cup GatewayPcs,
                                   user : Users \cup {NoUser},
                                   email : Emails \cup {NoEmail},
                                   notif : Notifications
                                             \cup {NoNotification},
                                   resolved : BOOLEAN]]
  /\ informing \in [Informers -> [pc : {"idle"} \cup GatewayPcs,
                                   req : Requests \cup {NoRequest},
                                   resolved : BOOLEAN]]
  /\ initialized => cachedKey # NoKey

====
